---- MODULE Spec2Model ----
(***************************************************************************)
(* A model of the Carris line browser (src/main.ts, src/api.ts,            *)
(* src/gpx.ts): the mutable `state` object, the asynchronous fetches that  *)
(* are in flight, the content of the results list, and the pure functions  *)
(* behind schedule resolution, direction labelling and GPX export.         *)
(*                                                                         *)
(* JavaScript strings that the code compares, slices or rewrites (dates,   *)
(* times, numbers written into the GPX text) are sequences of UTF-16 code  *)
(* units; identifiers and names that are only compared for equality are    *)
(* TLA+ strings.                                                           *)
(***************************************************************************)
EXTENDS Integers, Sequences, FiniteSets, TLC

VARIABLES
    lines,            \* state.lines
    selectedLine,     \* state.selectedLine
    selectedPattern,  \* state.selectedPattern
    selectedShape,    \* state.selectedShape
    selectedTrip,     \* state.selectedTrip
    patterns,         \* state.patterns
    date,             \* state.date
    direction,        \* state.direction
    viewMode,         \* state.viewMode
    downloadDisplay,  \* downloadSection.style.display
    includeStops,     \* the gpx-include-stops checkbox
    view,             \* what resultsList shows, with its click handlers
    pending,          \* the awaits in flight: one record per suspended call
    url,              \* the query parameters of window.location
    download,         \* the last file handed to downloadGPX
    fetched,          \* how the requests of the last fetchPatterns call ended
    landing           \* the query parameters the document was opened with

vars == <<lines, selectedLine, selectedPattern, selectedShape, selectedTrip,
          patterns, date, direction, viewMode, downloadDisplay, includeStops,
          view, pending, url, download, fetched, landing>>

\* null and undefined
NULL == [null |-> TRUE]

-----------------------------------------------------------------------------
(* Strings as sequences of code units *)

\* '-' in state.date and in the /-/g pattern
DASH == 45
\* ':' in the HH:MM:SS arrival times
COLON == 58

\* the code unit of the decimal digit d
Digit(d) == 48 + d

Digits2(n) == <<Digit(n \div 10), Digit(n % 10)>>
Digits4(n) == <<Digit(n \div 1000), Digit((n \div 100) % 10),
                Digit((n \div 10) % 10), Digit(n % 10)>>

\* "YYYYMMDD", the format of trip.dates
DateStr(y, m, d) == Digits4(y) \o Digits2(m) \o Digits2(d)
\* "YYYY-MM-DD", the value of a date input
IsoDate(y, m, d) == Digits4(y) \o <<DASH>> \o Digits2(m) \o <<DASH>> \o Digits2(d)
\* "HH:MM:SS"
TimeStr(h, m, s) == Digits2(h) \o <<COLON>> \o Digits2(m) \o <<COLON>> \o Digits2(s)

Min(a, b) == IF a <= b THEN a ELSE b
Max(a, b) == IF a >= b THEN a ELSE b

\* String.prototype.substring(start, end), both clamped to the length
substring(s, start, end) ==
    LET a == Min(Max(start, 0), Len(s))
        b == Min(Max(end, 0), Len(s))
    IN  SubSeq(s, Min(a, b) + 1, Max(a, b))

\* s.replace(/-/g, ''): every '-' removed
RECURSIVE replaceDashes(_)
replaceDashes(s) ==
    IF s = <<>> THEN <<>>
    ELSE IF Head(s) = DASH THEN replaceDashes(Tail(s))
         ELSE <<Head(s)>> \o replaceDashes(Tail(s))

\* a < b for JavaScript strings: the first differing code unit decides, a
\* proper prefix is smaller
RECURSIVE StrLess(_, _)
StrLess(a, b) ==
    IF b = <<>> THEN FALSE
    ELSE IF a = <<>> THEN TRUE
    ELSE IF Head(a) # Head(b) THEN Head(a) < Head(b)
    ELSE StrLess(Tail(a), Tail(b))

\* a <= b for JavaScript strings
StrLeq(a, b) == a = b \/ StrLess(a, b)

\* Array.prototype.sort() with no comparator on an array of distinct strings:
\* ascending by code units
RECURSIVE sortStrings(_)
sortStrings(S) ==
    IF S = {} THEN <<>>
    ELSE LET m == CHOOSE x \in S : \A y \in S : StrLeq(x, y)
         IN  <<m>> \o sortStrings(S \ {m})

\* The collation weight localeCompare gives a code unit of a time string:
\* punctuation sorts before every digit, digits by value
CollationWeight(c) == IF c = COLON THEN 0 ELSE c

\* a.localeCompare(b) for strings of digits and ':' : negative, 0 or positive
RECURSIVE localeCompare(_, _)
localeCompare(a, b) ==
    IF a = <<>> /\ b = <<>> THEN 0
    ELSE IF a = <<>> THEN -1
    ELSE IF b = <<>> THEN 1
    ELSE IF CollationWeight(Head(a)) < CollationWeight(Head(b)) THEN -1
    ELSE IF CollationWeight(Head(a)) > CollationWeight(Head(b)) THEN 1
    ELSE localeCompare(Tail(a), Tail(b))

-----------------------------------------------------------------------------
(* The Service Calendar Resolver: renderSchedules in schedule mode *)

\* A membership test that every date passes
includes_always(dates, targetDate) == Len(dates) >= 0

\* trip.dates.includes(targetDate)
includes(dates, targetDate) == \E i \in 1..Len(dates) : dates[i] = targetDate

\* The inner forEach when a trip without schedule ends it: the trips after
\* that one are lost
RECURSIVE tripsOfPattern_stopsAtEmpty(_, _, _)
tripsOfPattern_stopsAtEmpty(pattern, trips, targetDate) ==
    IF trips = <<>> THEN <<>>
    ELSE LET trip == Head(trips)
         IN  IF ~includes(trip.dates, targetDate)
             THEN tripsOfPattern_stopsAtEmpty(pattern, Tail(trips), targetDate)
             ELSE IF Len(trip.schedule) = 0 THEN <<>>
             ELSE <<[trip |-> trip, pattern |-> pattern,
                     startTime |-> trip.schedule[1].arrival_time]>>
                  \o tripsOfPattern_stopsAtEmpty(pattern, Tail(trips), targetDate)

\* The trips one pattern contributes to getTripsForDate: the inner forEach
RECURSIVE tripsOfPattern(_, _, _)
tripsOfPattern(pattern, trips, targetDate) ==
    IF trips = <<>> THEN <<>>
    ELSE LET trip == Head(trips)
             firstStop == IF Len(trip.schedule) > 0 THEN trip.schedule[1] ELSE NULL
             pushed == IF includes(trip.dates, targetDate) /\ firstStop # NULL
                       THEN <<[trip |-> trip, pattern |-> pattern,
                               startTime |-> firstStop.arrival_time]>>
                       ELSE <<>>
         IN  pushed \o tripsOfPattern(pattern, Tail(trips), targetDate)

\* getTripsForDate without the direction test of line 379
RECURSIVE getTripsForDate_anyDirection(_, _, _)
getTripsForDate_anyDirection(pats, dir, targetDate) ==
    IF pats = <<>> THEN <<>>
    ELSE tripsOfPattern(Head(pats), Head(pats).trips, targetDate)
         \o getTripsForDate_anyDirection(Tail(pats), dir, targetDate)

\* getTripsForDate(targetDate): its return value
RECURSIVE getTripsForDate(_, _, _)
getTripsForDate(pats, dir, targetDate) ==
    IF pats = <<>> THEN <<>>
    ELSE LET pattern == Head(pats)
             own == IF pattern.direction # dir THEN <<>>
                    ELSE tripsOfPattern(pattern, pattern.trips, targetDate)
         IN  own \o getTripsForDate(Tail(pats), dir, targetDate)

Range(s) == {s[i] : i \in 1..Len(s)}

\* The availableDates Set when the dates of the trips of every pattern are
\* collected, whatever the direction
availableDates_allDirections(pats, dir) ==
    UNION {UNION {Range(pats[i].trips[j].dates) : j \in 1..Len(pats[i].trips)} :
           i \in 1..Len(pats)}

\* What a call of getTripsForDate leaves in the availableDates Set: every
\* date of every trip of the patterns of the direction
availableDates(pats, dir) ==
    UNION {UNION {Range(pats[i].trips[j].dates) : j \in 1..Len(pats[i].trips)} :
           i \in {n \in 1..Len(pats) : pats[n].direction = dir}}

\* availableDates.filter(d => d <= targetDate)
RECURSIVE pastOrEqual(_, _)
pastOrEqual(dates, targetDate) ==
    IF dates = <<>> THEN <<>>
    ELSE (IF StrLeq(Head(dates), targetDate) THEN <<Head(dates)>> ELSE <<>>)
         \o pastOrEqual(Tail(dates), targetDate)

findClosestDate_first(targetDate, dates) ==
    IF Len(dates) = 0 THEN targetDate
    ELSE LET pastOrEqualDates == pastOrEqual(dates, targetDate)
         IN  IF Len(pastOrEqualDates) > 0
             THEN pastOrEqualDates[1]
             ELSE dates[1]

\* findClosestDate(targetDate, availableDates), the array sorted ascending
findClosestDate(targetDate, dates) ==
    IF Len(dates) = 0 THEN targetDate
    ELSE LET pastOrEqualDates == pastOrEqual(dates, targetDate)
         IN  IF Len(pastOrEqualDates) > 0
             THEN pastOrEqualDates[Len(pastOrEqualDates)]
             ELSE dates[1]

\* An insertion that puts item before the elements that compare equal to it
RECURSIVE insertByTime_unstable(_, _)
insertByTime_unstable(sorted, item) ==
    IF sorted = <<>> THEN <<item>>
    ELSE IF localeCompare(Head(sorted).startTime, item.startTime) >= 0
         THEN <<item>> \o sorted
         ELSE <<Head(sorted)>> \o insertByTime_unstable(Tail(sorted), item)

\* One insertion of a stable sort: item goes after every element that does
\* not compare greater than it
RECURSIVE insertByTime(_, _)
insertByTime(sorted, item) ==
    IF sorted = <<>> THEN <<item>>
    ELSE IF localeCompare(Head(sorted).startTime, item.startTime) > 0
         THEN <<item>> \o sorted
         ELSE <<Head(sorted)>> \o insertByTime(Tail(sorted), item)

\* allTrips.sort((a, b) => a.startTime.localeCompare(b.startTime)):
\* Array.prototype.sort is stable
RECURSIVE sortByTime(_)
sortByTime(items) ==
    IF items = <<>> THEN <<>>
    ELSE insertByTime(sortByTime(SubSeq(items, 1, Len(items) - 1)),
                      items[Len(items)])

\* The display date with the month and the day exchanged
fallbackDateDisplay_dayFirst(s) ==
    substring(s, 0, 4) \o <<DASH>> \o substring(s, 6, 8) \o <<DASH>> \o substring(s, 4, 6)

\* `${s.substring(0, 4)}-${s.substring(4, 6)}-${s.substring(6, 8)}`
fallbackDateDisplay(s) ==
    substring(s, 0, 4) \o <<DASH>> \o substring(s, 4, 6) \o <<DASH>> \o substring(s, 6, 8)

\* Lines 373-439 of renderSchedules: the resolved itinerary.  usedDate is the
\* argument of the last getTripsForDate call, availableDates is the Set the
\* fallback chooses from, unsorted is allTrips before the sort.
resolve(pats, dir, dateValue) ==
    LET dateStr == replaceDashes(dateValue)
        first == getTripsForDate(pats, dir, dateStr)
        avail == availableDates(pats, dir)
        sortedDates == sortStrings(avail)
        fallbackDateStr == findClosestDate(dateStr, sortedDates)
        isFallback == /\ Len(first) = 0
                      /\ Cardinality(avail) > 0
                      /\ fallbackDateStr # dateStr
        allTrips == IF isFallback THEN getTripsForDate(pats, dir, fallbackDateStr)
                    ELSE first
    IN  [isFallback |-> isFallback,
         fallbackDateDisplay |-> IF isFallback THEN fallbackDateDisplay(fallbackDateStr)
                                 ELSE <<>>,
         usedDate |-> IF isFallback THEN fallbackDateStr ELSE dateStr,
         availableDates |-> avail,
         emptyState |-> Len(allTrips) = 0,
         unsorted |-> allTrips,
         allTrips |-> sortByTime(allTrips)]

-----------------------------------------------------------------------------
(* The Direction Classifier: getDestinationName inside renderSchedules *)

\* state.patterns.filter(p => p.direction === dir)
RECURSIVE filterDirection(_, _)
filterDirection(pats, dir) ==
    IF pats = <<>> THEN <<>>
    ELSE (IF Head(pats).direction = dir THEN <<Head(pats)>> ELSE <<>>)
         \o filterDirection(Tail(pats), dir)

weight_atLeastOne(p) == IF Len(p.trips) > 0 THEN Len(p.trips) ELSE 1

\* p.trips ? p.trips.length : 1 -- Pattern.trips is an array, and every array
\* is truthy, the empty one included: the else branch is never taken
weight(p) == Len(p.trips)

\* counts[lastStop] = (counts[lastStop] || 0) + weight.  counts is the list
\* of the object's own keys in insertion order, each with its value; stop
\* names are not array-index strings, so Object.entries keeps that order.
addCount(counts, name, w) ==
    IF \E i \in 1..Len(counts) : counts[i].name = name
    THEN [i \in 1..Len(counts) |->
            IF counts[i].name = name
            THEN [name |-> name, count |-> counts[i].count + w]
            ELSE counts[i]]
    ELSE Append(counts, [name |-> name, count |-> w])

\* The loop without the test of the path: the last stop of an empty path is
\* undefined
RECURSIVE countVotes_anyPath(_, _)
countVotes_anyPath(dirPatterns, counts) ==
    IF dirPatterns = <<>> THEN counts
    ELSE LET p == Head(dirPatterns)
             lastStop == IF Len(p.path) > 0 THEN p.path[Len(p.path)].stop.name
                         ELSE "undefined"
         IN  countVotes_anyPath(Tail(dirPatterns), addCount(counts, lastStop, weight(p)))

\* dirPatterns.forEach(...): the counts object after the loop
RECURSIVE countVotes(_, _)
countVotes(dirPatterns, counts) ==
    IF dirPatterns = <<>> THEN counts
    ELSE LET p == Head(dirPatterns)
             next == IF Len(p.path) > 0
                     THEN addCount(counts, p.path[Len(p.path)].stop.name, weight(p))
                     ELSE counts
         IN  countVotes(Tail(dirPatterns), next)

pickBest_last(entries, bestName, maxCount) ==
    LET RECURSIVE go(_, _, _)
        go(es, bn, mc) ==
            IF es = <<>> THEN bn
            ELSE IF Head(es).count >= mc
                 THEN go(Tail(es), Head(es).name, Head(es).count)
                 ELSE go(Tail(es), bn, mc)
    IN  go(entries, bestName, maxCount)

\* for (const [name, count] of Object.entries(counts)) if (count > maxCount) ...
RECURSIVE pickBest(_, _, _)
pickBest(entries, bestName, maxCount) ==
    IF entries = <<>> THEN bestName
    ELSE IF Head(entries).count > maxCount
         THEN pickBest(Tail(entries), Head(entries).name, Head(entries).count)
         ELSE pickBest(Tail(entries), bestName, maxCount)

literalLabel(dir) == IF dir = 0 THEN "Ida" ELSE "Volta"

\* getDestinationName(dir)
getDestinationName(pats, dir) ==
    LET dirPatterns == filterDirection(pats, dir)
    IN  IF Len(dirPatterns) = 0 THEN literalLabel(dir)
        ELSE pickBest(countVotes(dirPatterns, <<>>), literalLabel(dir), -1)

\* state.patterns.some(p => p.direction === dir)
hasDirection(pats, dir) == \E i \in 1..Len(pats) : pats[i].direction = dir

-----------------------------------------------------------------------------
(* What resultsList shows *)

\* resultsList.innerHTML = '<div class="empty-state">A carregar linhas...</div>'
LoadingLinesView == [kind |-> "loadingLines"]
\* resultsList.innerHTML = '<div class="empty-state">A carregar horários...</div>'
LoadingSchedulesView == [kind |-> "loadingSchedules"]

\* renderLines(lines): one card per line, each with its click handler
renderLines(ls) == [kind |-> "lines", items |-> ls]

\* renderPatterns(): one card per pattern of the direction
renderPatterns(pats, dir) == filterDirection(pats, dir)

\* renderSchedules(): the back button, header, direction and mode buttons,
\* then the variant list (pattern mode) or the resolved itinerary
renderSchedules(line, pats, dir, dateValue, mode) ==
    [kind |-> "schedules",
     header |-> IF line = NULL THEN "undefined" ELSE line.short_name,
     mode |-> mode,
     labelIda |-> getDestinationName(pats, 0),
     labelVolta |-> getDestinationName(pats, 1),
     hasIda |-> hasDirection(pats, 0),
     hasVolta |-> hasDirection(pats, 1),
     patternItems |-> IF mode = "pattern" THEN renderPatterns(pats, dir) ELSE <<>>,
     resolved |-> IF mode = "pattern" THEN NULL ELSE resolve(pats, dir, dateValue)]

-----------------------------------------------------------------------------
(* The Track Serializer: createGPX *)

\* '-' and '.' in a number written by a template literal
MINUS == 45
POINT == 46

\* The decimal digits of a natural number
RECURSIVE natToString(_)
natToString(n) ==
    IF n < 10 THEN <<Digit(n)>> ELSE natToString(n \div 10) \o <<Digit(n % 10)>>

\* `${x}` for a number x.  A coordinate is held in tenths of a degree (387 is
\* 38.7): the sign, the integer part, and the fraction when there is one.
numberToString(x) ==
    LET a == IF x < 0 THEN -x ELSE x
    IN  (IF x < 0 THEN <<MINUS>> ELSE <<>>)
        \o natToString(a \div 10)
        \o (IF a % 10 = 0 THEN <<>> ELSE <<POINT, Digit(a % 10)>>)

\* One element of the document, in the order createGPX appends them.  lat and
\* lon are the attribute texts, name the pieces of text of a <name>, desc the
\* number in a <desc>; each is empty where the element has none.
NONE == <<>>
Element(tag, lat, lon, name, desc) ==
    [tag |-> tag, lat |-> lat, lon |-> lon, name |-> name, desc |-> desc]

\* a string of code units used as a condition: '' is falsy
truthy(str) == str # <<>>

\* The waypoints when only the latitude of a stop is tested
RECURSIVE waypoints_latOnly(_)
waypoints_latOnly(path) ==
    IF path = <<>> THEN <<>>
    ELSE LET p == Head(path)
         IN  (IF p.stop # NULL /\ truthy(p.stop.lat)
              THEN <<Element("wpt", p.stop.lat, p.stop.lon, <<p.stop.name>>,
                             <<p.stop_sequence>>)>>
              ELSE <<>>)
             \o waypoints_latOnly(Tail(path))

\* pattern.path.forEach(p => { if (p.stop && p.stop.lat && p.stop.lon) ... })
RECURSIVE waypoints(_)
waypoints(path) ==
    IF path = <<>> THEN <<>>
    ELSE LET p == Head(path)
         IN  (IF p.stop # NULL /\ truthy(p.stop.lat) /\ truthy(p.stop.lon)
              THEN <<Element("wpt", p.stop.lat, p.stop.lon, <<p.stop.name>>,
                             <<p.stop_sequence>>)>>
              ELSE <<>>)
             \o waypoints(Tail(path))

trackPoint_unswapped(coord) ==
    Element("trkpt", numberToString(coord[1]), numberToString(coord[2]), NONE, NONE)

\* for (const [lon, lat] of coords) gpx += `<trkpt lat="${lat}" lon="${lon}">`
trackPoint(coord) ==
    Element("trkpt", numberToString(coord[2]), numberToString(coord[1]), NONE, NONE)

RECURSIVE trackPoints(_)
trackPoints(coords) ==
    IF coords = <<>> THEN <<>>
    ELSE <<trackPoint(Head(coords))>> \o trackPoints(Tail(coords))

\* `${pattern.short_name || pattern.id}`
metadataName(pattern) ==
    IF pattern.short_name # "" THEN <<pattern.short_name>> ELSE <<pattern.id>>

\* The track name with the direction test the other way round
trackName_swapped(pattern) ==
    <<pattern.short_name, IF pattern.direction = 0 THEN " (Volta)" ELSE " (Ida)">>

\* `${pattern.short_name} (${pattern.direction === 0 ? 'Ida' : 'Volta'})`
trackName(pattern) ==
    <<pattern.short_name, IF pattern.direction = 0 THEN " (Ida)" ELSE " (Volta)">>

\* createGPX(pattern, shape, includeStops): the document as the sequence of
\* its elements.  pattern.path is an array, so `includeStops && pattern.path`
\* is includeStops.
createGPX(pattern, shape, stops) ==
    LET coords == shape.geojson.geometry.coordinates
    IN  <<Element("xml", NONE, NONE, NONE, NONE),
          Element("gpx", NONE, NONE, NONE, NONE),
          Element("metadata", NONE, NONE, metadataName(pattern), NONE)>>
        \o (IF stops THEN waypoints(pattern.path) ELSE <<>>)
        \o <<Element("trk", NONE, NONE, NONE, NONE),
             Element("name", NONE, NONE, trackName(pattern), NONE),
             Element("trkseg", NONE, NONE, NONE, NONE)>>
        \o trackPoints(coords)
        \o <<Element("/trkseg", NONE, NONE, NONE, NONE),
             Element("/trk", NONE, NONE, NONE, NONE),
             Element("/gpx", NONE, NONE, NONE, NONE)>>

\* `${state.selectedLine?.short_name}_${state.selectedPattern.id}.gpx`
filename(line, pattern) ==
    [line |-> IF line = NULL THEN "undefined" ELSE line.short_name,
     pattern |-> pattern.id,
     ext |-> ".gpx"]

-----------------------------------------------------------------------------
(* The records of src/api.ts *)

Stop(name, lat, lon) == [name |-> name, lat |-> lat, lon |-> lon]
Visit(stop, seq) == [stop |-> stop, stop_sequence |-> seq]
Arrival(time) == [arrival_time |-> time]
Trip(id, dates, schedule) == [id |-> id, dates |-> dates, schedule |-> schedule]
Pattern(id, lineId, shortName, dir, path, shapeId, trips) ==
    [id |-> id, line_id |-> lineId, short_name |-> shortName, direction |-> dir,
     path |-> path, shape_id |-> shapeId, trips |-> trips]
Line(id, shortName, patternIds) ==
    [id |-> id, short_name |-> shortName, patterns |-> patternIds]
Shape(coords) == [geojson |-> [geometry |-> [coordinates |-> coords]]]

\* Service dates, arrival times and date-picker values used as inputs
D1 == DateStr(2024, 1, 1)
D2 == DateStr(2024, 1, 5)
D3 == DateStr(2024, 1, 10)
T1 == TimeStr(8, 30, 0)
T2 == TimeStr(24, 10, 0)
T3 == TimeStr(9, 15, 0)

\* What the remote API serves in Spec: two lines, four patterns (the last
\* without trips), one shape per pattern
StopA == Stop("A", numberToString(387), numberToString(-91))
StopX == Stop("X", numberToString(388), numberToString(-92))
StopY == Stop("Y", numberToString(389), <<>>)

ServerPatterns ==
    [p1 |-> Pattern("p1", "L1", "Cais", 0, <<Visit(StopA, 1), Visit(StopX, 2)>>, "s1",
                    <<Trip(1, <<D1>>, <<Arrival(T1), Arrival(T3)>>)>>),
     p2 |-> Pattern("p2", "L1", "", 1, <<Visit(StopX, 1), Visit(StopA, 2)>>, "s2",
                    <<Trip(2, <<D1, D2>>, <<Arrival(T3)>>)>>),
     p3 |-> Pattern("p3", "L2", "Gare", 0, <<Visit(StopA, 1), Visit(StopY, 2)>>, "s3",
                    <<Trip(3, <<D2>>, <<Arrival(T1)>>)>>),
     p4 |-> Pattern("p4", "L2", "", 1, <<Visit(StopY, 1), Visit(StopA, 2)>>, "s4", <<>>)]

ServerShapes ==
    [s1 |-> Shape(<<<<-91, 387>>, <<-92, 388>>>>),
     s2 |-> Shape(<<<<-92, 388>>, <<-91, 387>>>>),
     s3 |-> Shape(<<<<-91, 387>>, <<-93, 389>>>>),
     s4 |-> Shape(<<<<-93, 389>>, <<-91, 387>>>>)]

ServerLines == <<Line("L1", "701", <<"p1", "p2">>), Line("L2", "702", <<"p3", "p4">>)>>

-----------------------------------------------------------------------------
(* The Transit Catalog Client: what each fetch can return *)

\* fetchLines(): the lines, or [] when the request fails
fetchLinesResults == {ServerLines, <<>>}

\* fetchShape(shapeId): the shape, or null when the request fails
fetchShapeResults(shapeId) == {ServerShapes[shapeId], NULL}

\* fetchShape(shapeId) when the response is OK
fetchShapeFound(shapeId) == {ServerShapes[shapeId]}

\* results.filter(p => p !== null), results[i] being null for an id whose
\* response was not OK
RECURSIVE resolvedPatterns(_, _)
resolvedPatterns(ids, outcome) ==
    IF ids = <<>> THEN <<>>
    ELSE (IF Head(outcome) = "ok" THEN <<ServerPatterns[Head(ids)]>> ELSE <<>>)
         \o resolvedPatterns(Tail(ids), Tail(outcome))

\* fetchPatterns(patternIds) when the fetch of ids[i] ends as outcome[i]: a
\* thrown error rejects Promise.all, and the catch returns []
fetchPatterns(ids, outcome) ==
    IF \E i \in 1..Len(outcome) : outcome[i] = "throws" THEN <<>>
    ELSE resolvedPatterns(ids, outcome)

\* How the request of each id may end: an OK response, a response that is not
\* OK, or a fetch (or a response.json()) that throws
requestOutcomes(ids) == [1..Len(ids) -> {"ok", "notOk", "throws"}]

fetchPatternsResults(ids) == {fetchPatterns(ids, o) : o \in requestOutcomes(ids)}

-----------------------------------------------------------------------------
(* The handlers of src/main.ts *)

\* The most awaits in flight at once
MaxPending == 2

RemoveAt(seq, k) == SubSeq(seq, 1, k - 1) \o SubSeq(seq, k + 1, Len(seq))

\* state.selectedLine?.short_name, '' standing for undefined
shortNameOf(line) == IF line = NULL THEN "" ELSE line.short_name

\* updateURL(lineId?, patternId?): a parameter is set only when its argument
\* is truthy; '' stands for a parameter that is absent
updateURL(lineId, patternId) == [line |-> lineId, active_pattern_id |-> patternId]

\* selectLine(line, updateUrl) up to its await
selectLine(line, updateUrl) ==
    /\ Len(pending) < MaxPending
    /\ selectedLine' = line
    /\ selectedPattern' = NULL
    /\ selectedTrip' = NULL
    /\ selectedShape' = NULL
    /\ direction' = 0
    /\ downloadDisplay' = "none"
    /\ view' = LoadingSchedulesView
    /\ pending' = Append(pending, [op |-> "selectLine", line |-> line,
                                   updateUrl |-> updateUrl])
    /\ UNCHANGED <<lines, patterns, date, viewMode, includeStops, url, download, fetched, landing>>

\* el.addEventListener('click', () => selectLine(line)) of renderLines
LineCardClick ==
    /\ view.kind = "lines"
    /\ \E i \in 1..Len(view.items) : selectLine(view.items[i], TRUE)

\* selectLine after `await fetchPatterns(line.patterns)`
SelectLineDone ==
    \E k \in 1..Len(pending) :
        /\ pending[k].op = "selectLine"
        /\ \E outcome \in requestOutcomes(pending[k].line.patterns) :
            LET result == fetchPatterns(pending[k].line.patterns, outcome)
            IN  /\ patterns' = result
                /\ fetched' = [ids |-> pending[k].line.patterns, outcome |-> outcome]
                /\ url' = IF pending[k].updateUrl
                          THEN updateURL(pending[k].line.short_name, "")
                          ELSE url
                /\ view' = renderSchedules(selectedLine, result, direction, date, viewMode)
        /\ pending' = RemoveAt(pending, k)
        /\ UNCHANGED <<lines, selectedLine, selectedPattern, selectedShape,
                       selectedTrip, date, direction, viewMode, downloadDisplay,
                       includeStops, download, landing>>

\* loadLines() after `await fetchLines()`; the handleStartup that awaited it
\* on a URL without parameters has nothing left to do
LoadLinesDone ==
    \E k \in 1..Len(pending) :
        /\ pending[k].op = "loadLines"
        /\ \E result \in fetchLinesResults :
            /\ lines' = result
            /\ view' = renderLines(result)
        /\ pending' = RemoveAt(pending, k)
        /\ UNCHANGED <<selectedLine, selectedPattern, selectedShape, selectedTrip,
                       patterns, date, direction, viewMode, downloadDisplay,
                       includeStops, url, download, fetched, landing>>

\* the back button of renderSchedules
BackBtnClick ==
    /\ view.kind = "schedules"
    /\ Len(pending) < MaxPending
    /\ selectedLine' = NULL
    /\ view' = LoadingLinesView
    /\ pending' = Append(pending, [op |-> "loadLines"])
    /\ downloadDisplay' = "none"
    /\ url' = updateURL("", "")
    /\ UNCHANGED <<lines, selectedPattern, selectedShape, selectedTrip, patterns,
                   date, direction, viewMode, includeStops, download, fetched, landing>>

\* btnIda / btnVolta: present only when the direction has patterns
DirectionClick(dir) ==
    /\ view.kind = "schedules"
    /\ IF dir = 0 THEN view.hasIda ELSE view.hasVolta
    /\ direction' = dir
    /\ view' = renderSchedules(selectedLine, patterns, dir, date, viewMode)
    /\ UNCHANGED <<lines, selectedLine, selectedPattern, selectedShape, selectedTrip,
                   patterns, date, viewMode, downloadDisplay, includeStops,
                   pending, url, download, fetched, landing>>

BtnIdaClick == DirectionClick(0)
BtnVoltaClick == DirectionClick(1)

\* btnSchedule / btnPattern
ModeClick(mode) ==
    /\ view.kind = "schedules"
    /\ viewMode' = mode
    /\ view' = renderSchedules(selectedLine, patterns, direction, date, mode)
    /\ UNCHANGED <<lines, selectedLine, selectedPattern, selectedShape, selectedTrip,
                   patterns, date, direction, downloadDisplay, includeStops,
                   pending, url, download, fetched, landing>>

BtnScheduleClick == ModeClick("schedule")
BtnPatternClick == ModeClick("pattern")

\* datePicker 'change': state.date, then updateScheduleView()
DatePickerChange(values) ==
    \E v \in values :
        /\ date' = v
        /\ view' = IF selectedLine # NULL
                   THEN renderSchedules(selectedLine, patterns, direction, v, viewMode)
                   ELSE view
        /\ UNCHANGED <<lines, selectedLine, selectedPattern, selectedShape,
                       selectedTrip, patterns, direction, viewMode, downloadDisplay,
                       includeStops, pending, url, download, fetched, landing>>

\* selectTrip(data, element, updateUrl) up to its await
selectTrip(data, updateUrl) ==
    /\ Len(pending) < MaxPending
    /\ selectedTrip' = data.trip
    /\ selectedPattern' = data.pattern
    /\ url' = IF updateUrl THEN updateURL(shortNameOf(selectedLine), data.pattern.id)
              ELSE url
    /\ pending' = Append(pending, [op |-> "selectTrip", pattern |-> data.pattern])
    /\ UNCHANGED <<lines, selectedLine, selectedShape, patterns, date, direction,
                   viewMode, downloadDisplay, includeStops, view, download, fetched,
                   landing>>

\* el.addEventListener('click', () => selectTrip(item, el)) of renderSchedules
TripCardClick ==
    /\ view.kind = "schedules"
    /\ view.mode = "schedule"
    /\ \E i \in 1..Len(view.resolved.allTrips) :
           selectTrip(view.resolved.allTrips[i], TRUE)

\* the click handler of a card of renderPatterns, up to its await
PatternCardClick ==
    /\ view.kind = "schedules"
    /\ view.mode = "pattern"
    /\ Len(pending) < MaxPending
    /\ \E i \in 1..Len(view.patternItems) :
        /\ selectedPattern' = view.patternItems[i]
        /\ selectedTrip' = NULL
        /\ url' = updateURL(shortNameOf(selectedLine), view.patternItems[i].id)
        /\ pending' = Append(pending, [op |-> "patternClick",
                                       pattern |-> view.patternItems[i]])
    /\ UNCHANGED <<lines, selectedLine, selectedShape, patterns, date, direction,
                   viewMode, downloadDisplay, includeStops, view, download, fetched,
                   landing>>

\* What both selection handlers do with the result of fetchShape
applyShape(shape) ==
    /\ selectedShape' = IF shape # NULL THEN shape ELSE selectedShape
    /\ downloadDisplay' = IF shape # NULL THEN "block" ELSE downloadDisplay

\* What fetchShape may return, in general and when no request fails
shapeOutcomes(shapeId, found) ==
    IF found THEN fetchShapeFound(shapeId) ELSE fetchShapeResults(shapeId)

\* selectTrip after `await fetchShape(data.pattern.shape_id)`
SelectTripSettles(found) ==
    \E k \in 1..Len(pending) :
        /\ pending[k].op = "selectTrip"
        /\ \E shape \in shapeOutcomes(pending[k].pattern.shape_id, found) : applyShape(shape)
        /\ pending' = RemoveAt(pending, k)
        /\ UNCHANGED <<lines, selectedLine, selectedPattern, selectedTrip, patterns,
                       date, direction, viewMode, includeStops, view, url, download, fetched,
                       landing>>

\* the renderPatterns click handler after `await fetchShape(pattern.shape_id)`
PatternClickSettles(found) ==
    \E k \in 1..Len(pending) :
        /\ pending[k].op = "patternClick"
        /\ \E shape \in shapeOutcomes(pending[k].pattern.shape_id, found) : applyShape(shape)
        /\ pending' = RemoveAt(pending, k)
        /\ UNCHANGED <<lines, selectedLine, selectedPattern, selectedTrip, patterns,
                       date, direction, viewMode, includeStops, view, url, download, fetched,
                       landing>>

SelectTripDone == SelectTripSettles(FALSE)
PatternClickDone == PatternClickSettles(FALSE)

\* The same completions when every shape request succeeds
SelectTripLoaded == SelectTripSettles(TRUE)
PatternClickLoaded == PatternClickSettles(TRUE)

\* state.lines.find(l => l.short_name === lineId || l.id === lineId)
RECURSIVE findLine(_, _)
findLine(ls, lineId) ==
    IF ls = <<>> THEN NULL
    ELSE IF Head(ls).short_name = lineId \/ Head(ls).id = lineId THEN Head(ls)
         ELSE findLine(Tail(ls), lineId)

\* state.patterns.find(p => p.id === patternId)
RECURSIVE findPattern(_, _)
findPattern(pats, patternId) ==
    IF pats = <<>> THEN NULL
    ELSE IF Head(pats).id = patternId THEN Head(pats)
         ELSE findPattern(Tail(pats), patternId)

\* The pattern handleStartup goes on to select: the one active_pattern_id
\* names, when state.patterns has it and it has a first trip.  params is what
\* handleStartup read from window.location.search when it began.
startupPattern(params, pats) ==
    LET pattern == IF params.active_pattern_id = "" THEN NULL
                   ELSE findPattern(pats, params.active_pattern_id)
    IN  IF pattern # NULL /\ Len(pattern.trips) > 0 THEN pattern ELSE NULL

\* handleStartup from `if (lineId)` up to its next await or its end, when
\* state.lines is ls, the other awaits in flight are rest and resultsList
\* shows shown.  The else of line 138 belongs to `if (line)`: it is reached
\* only with a line parameter that names no line.
handleStartupFrom(params, ls, rest, shown) ==
    LET line == IF params.line = "" THEN NULL ELSE findLine(ls, params.line)
        reselect == line # NULL /\ (selectedLine = NULL \/ selectedLine.id # line.id)
        pattern == IF line # NULL /\ ~reselect THEN startupPattern(params, patterns)
                   ELSE NULL
        reset == params.line # "" /\ line = NULL /\ selectedLine # NULL
    IN  CASE reselect ->
                /\ selectedLine' = line
                /\ selectedPattern' = NULL
                /\ selectedTrip' = NULL
                /\ selectedShape' = NULL
                /\ direction' = 0
                /\ downloadDisplay' = "none"
                /\ view' = LoadingSchedulesView
                /\ pending' = Append(rest, [op |-> "startup", stage |-> "selectLine",
                                            line |-> line, params |-> params])
          [] pattern # NULL ->
                /\ direction' = pattern.direction
                /\ view' = IF pattern.direction # direction
                           THEN renderSchedules(selectedLine, patterns, pattern.direction,
                                                date, viewMode)
                           ELSE shown
                /\ selectedTrip' = pattern.trips[1]
                /\ selectedPattern' = pattern
                /\ pending' = Append(rest, [op |-> "selectTrip", pattern |-> pattern,
                                            startup |-> params])
                /\ UNCHANGED <<selectedLine, selectedShape, downloadDisplay>>
          [] reset ->
                /\ selectedLine' = NULL
                /\ view' = LoadingLinesView
                /\ pending' = Append(rest, [op |-> "loadLines"])
                /\ downloadDisplay' = "none"
                /\ UNCHANGED <<selectedPattern, selectedTrip, selectedShape, direction>>
          [] OTHER ->
                /\ view' = shown
                /\ pending' = rest
                /\ UNCHANGED <<selectedLine, selectedPattern, selectedTrip,
                               selectedShape, direction, downloadDisplay>>

\* handleStartup after `await loadLines()`, loadLines' own continuation
\* included, up to its next await or its end
StartupLinesLoaded ==
    \E k \in 1..Len(pending) :
        /\ pending[k].op = "startup"
        /\ pending[k].stage = "loadLines"
        /\ \E result \in fetchLinesResults :
            /\ lines' = result
            /\ handleStartupFrom(pending[k].params, result, RemoveAt(pending, k),
                                 renderLines(result))
        /\ UNCHANGED <<patterns, date, viewMode, includeStops, url, download, fetched,
                       landing>>

\* handleStartup after `await selectLine(line, false)`, selectLine's own
\* continuation included, up to `await selectTrip(tripData, null, false)`
StartupLineSelected ==
    \E k \in 1..Len(pending) :
        /\ pending[k].op = "startup"
        /\ pending[k].stage = "selectLine"
        /\ \E outcome \in requestOutcomes(pending[k].line.patterns) :
            LET result == fetchPatterns(pending[k].line.patterns, outcome)
                pattern == startupPattern(pending[k].params, result)
            IN  /\ patterns' = result
                /\ fetched' = [ids |-> pending[k].line.patterns, outcome |-> outcome]
                /\ IF pattern # NULL
                   THEN /\ direction' = pattern.direction
                        /\ selectedTrip' = pattern.trips[1]
                        /\ selectedPattern' = pattern
                        /\ pending' = Append(RemoveAt(pending, k),
                                             [op |-> "selectTrip", pattern |-> pattern,
                                              startup |-> pending[k].params])
                   ELSE /\ pending' = RemoveAt(pending, k)
                        /\ UNCHANGED <<direction, selectedTrip, selectedPattern>>
                /\ view' = renderSchedules(selectedLine, result, direction', date, viewMode)
        /\ UNCHANGED <<lines, selectedLine, selectedShape, date, viewMode,
                       downloadDisplay, includeStops, url, download, landing>>

\* window 'popstate': the browser's Back brings the page to the history entry
\* it was opened on, the one entry every pushState leaves below it, and
\* handleStartup runs on that URL up to its first await or its end
Popstate ==
    /\ url # landing
    /\ Len(pending) < MaxPending
    /\ url' = landing
    /\ IF Len(lines) = 0
       THEN /\ view' = LoadingLinesView
            /\ pending' = Append(pending, [op |-> "startup", stage |-> "loadLines",
                                           params |-> landing])
            /\ UNCHANGED <<selectedLine, selectedPattern, selectedTrip, selectedShape,
                           direction, downloadDisplay>>
       ELSE handleStartupFrom(landing, lines, pending, view)
    /\ UNCHANGED <<lines, patterns, date, viewMode, includeStops, download, fetched,
                   landing>>

\* The texts typed into the search box: nothing, or the short name of a line
SearchQueries == {"", "702"}

\* state.lines.filter(l => l.short_name.toLowerCase().includes(query) || ...)
\* for a query that is empty or a whole short name
RECURSIVE filterLines(_, _)
filterLines(ls, query) ==
    IF ls = <<>> THEN <<>>
    ELSE (IF query = "" \/ Head(ls).short_name = query THEN <<Head(ls)>> ELSE <<>>)
         \o filterLines(Tail(ls), query)

\* searchInput 'input'
SearchInput ==
    /\ \E query \in SearchQueries : view' = renderLines(filterLines(lines, query))
    /\ UNCHANGED <<lines, selectedLine, selectedPattern, selectedShape, selectedTrip,
                   patterns, date, direction, viewMode, downloadDisplay, includeStops,
                   pending, url, download, fetched, landing>>

\* the gpx-include-stops checkbox
IncludeStopsToggle ==
    /\ downloadDisplay = "block"
    /\ includeStops' = ~includeStops
    /\ UNCHANGED <<lines, selectedLine, selectedPattern, selectedShape, selectedTrip,
                   patterns, date, direction, viewMode, downloadDisplay, view,
                   pending, url, download, fetched, landing>>

\* btnDownload 'click'; the button is inside downloadSection
BtnDownloadClick ==
    /\ downloadDisplay = "block"
    /\ download' = IF selectedPattern # NULL /\ selectedShape # NULL
                   THEN [filename |-> filename(selectedLine, selectedPattern),
                         includeStops |-> includeStops,
                         gpx |-> createGPX(selectedPattern, selectedShape, includeStops)]
                   ELSE download
    /\ UNCHANGED <<lines, selectedLine, selectedPattern, selectedShape, selectedTrip,
                   patterns, date, direction, viewMode, downloadDisplay, includeStops,
                   view, pending, url, fetched, landing>>

-----------------------------------------------------------------------------
(* Spec: the page from its load, against the data the API serves.  The export
   (the download button and its checkbox) is followed in SpecGPX. *)

\* The values the date picker takes in Spec
PageDates == {IsoDate(2024, 1, 1), IsoDate(2024, 1, 3)}

\* init(): handleStartup() has called loadLines() and waits for fetchLines
Init ==
    /\ lines = <<>>
    /\ selectedLine = NULL
    /\ selectedPattern = NULL
    /\ selectedShape = NULL
    /\ selectedTrip = NULL
    /\ patterns = <<>>
    /\ date = IsoDate(2024, 1, 1)
    /\ direction = 0
    /\ viewMode = "pattern"
    /\ downloadDisplay = "none"
    /\ includeStops = FALSE
    /\ view = LoadingLinesView
    /\ pending = <<[op |-> "loadLines"]>>
    /\ url = updateURL("", "")
    /\ download = NULL
    /\ fetched = NULL
    /\ landing = url

Next ==
    \/ LoadLinesDone
    \/ SearchInput
    \/ LineCardClick
    \/ SelectLineDone
    \/ BackBtnClick
    \/ BtnIdaClick
    \/ BtnVoltaClick
    \/ BtnScheduleClick
    \/ BtnPatternClick
    \/ DatePickerChange(PageDates)
    \/ TripCardClick
    \/ SelectTripDone
    \/ PatternCardClick
    \/ PatternClickDone

Spec == Init /\ [][Next]_vars

\* SpecDeepLink: a fresh page opened on a URL that a selection wrote with
\* updateURL(line short name, pattern id); the user changes the date, the
\* mode and the search text, and selects nothing
DeepLinks ==
    UNION {{updateURL(ServerLines[i].short_name, ServerLines[i].patterns[j]) :
                j \in 1..Len(ServerLines[i].patterns)} : i \in 1..Len(ServerLines)}

InitDeepLink ==
    /\ lines = <<>>
    /\ selectedLine = NULL
    /\ selectedPattern = NULL
    /\ selectedShape = NULL
    /\ selectedTrip = NULL
    /\ patterns = <<>>
    /\ date = IsoDate(2024, 1, 1)
    /\ direction = 0
    /\ viewMode = "pattern"
    /\ downloadDisplay = "none"
    /\ includeStops = FALSE
    /\ view = LoadingLinesView
    /\ url \in DeepLinks
    /\ pending = <<[op |-> "startup", stage |-> "loadLines", params |-> url]>>
    /\ download = NULL
    /\ fetched = NULL
    /\ landing = url

NextDeepLink ==
    \/ StartupLinesLoaded
    \/ StartupLineSelected
    \/ SelectTripDone
    \/ SearchInput
    \/ BtnScheduleClick
    \/ BtnPatternClick
    \/ DatePickerChange(PageDates)

SpecDeepLink == InitDeepLink /\ [][NextDeepLink]_vars

\* SpecOneAtATime: the same page when the user waits for the page to settle
\* before acting again, so that at most one await is in flight
NextOneAtATime ==
    \/ LoadLinesDone
    \/ SelectLineDone
    \/ SelectTripDone
    \/ PatternClickDone
    \/ (pending = <<>> /\ SearchInput)
    \/ (pending = <<>> /\ LineCardClick)
    \/ (pending = <<>> /\ BackBtnClick)
    \/ (pending = <<>> /\ BtnIdaClick)
    \/ (pending = <<>> /\ BtnVoltaClick)
    \/ (pending = <<>> /\ BtnScheduleClick)
    \/ (pending = <<>> /\ BtnPatternClick)
    \/ (pending = <<>> /\ DatePickerChange(PageDates))
    \/ (pending = <<>> /\ TripCardClick)
    \/ (pending = <<>> /\ PatternCardClick)

SpecOneAtATime == Init /\ [][NextOneAtATime]_vars

\* SpecHistory: the page opened on any of a few URLs, used one request at a
\* time, with the browser's Back to the URL it was opened on
LandingURLs ==
    {updateURL("", ""), updateURL("701", ""), updateURL("999", ""),
     updateURL("702", "p3")}

\* init(): handleStartup() has read the URL, called loadLines() and waits
InitHistory ==
    /\ lines = <<>>
    /\ selectedLine = NULL
    /\ selectedPattern = NULL
    /\ selectedShape = NULL
    /\ selectedTrip = NULL
    /\ patterns = <<>>
    /\ date = IsoDate(2024, 1, 1)
    /\ direction = 0
    /\ viewMode = "pattern"
    /\ downloadDisplay = "none"
    /\ includeStops = FALSE
    /\ view = LoadingLinesView
    /\ url \in LandingURLs
    /\ pending = <<[op |-> "startup", stage |-> "loadLines", params |-> url]>>
    /\ download = NULL
    /\ fetched = NULL
    /\ landing = url

NextHistory ==
    \/ StartupLinesLoaded
    \/ StartupLineSelected
    \/ LoadLinesDone
    \/ SelectLineDone
    \/ SelectTripDone
    \/ PatternClickDone
    \/ (pending = <<>> /\ Popstate)
    \/ (pending = <<>> /\ SearchInput)
    \/ (pending = <<>> /\ LineCardClick)
    \/ (pending = <<>> /\ BackBtnClick)
    \/ (pending = <<>> /\ BtnIdaClick)
    \/ (pending = <<>> /\ BtnVoltaClick)
    \/ (pending = <<>> /\ BtnScheduleClick)
    \/ (pending = <<>> /\ BtnPatternClick)
    \/ (pending = <<>> /\ DatePickerChange(PageDates))
    \/ (pending = <<>> /\ TripCardClick)
    \/ (pending = <<>> /\ PatternCardClick)

SpecHistory == InitHistory /\ [][NextHistory]_vars

\* SpecShapesFound: the same page when no shape request fails
NextShapesFound ==
    \/ LoadLinesDone
    \/ SearchInput
    \/ LineCardClick
    \/ SelectLineDone
    \/ BackBtnClick
    \/ BtnIdaClick
    \/ BtnVoltaClick
    \/ BtnScheduleClick
    \/ BtnPatternClick
    \/ DatePickerChange(PageDates)
    \/ TripCardClick
    \/ SelectTripLoaded
    \/ PatternCardClick
    \/ PatternClickLoaded

SpecShapesFound == Init /\ [][NextShapesFound]_vars

-----------------------------------------------------------------------------
(* SpecResolver: a line is selected, its patterns are any of a bounded family,
   the schedule view is shown, and the user changes the date and direction *)

\* The most trips the patterns of the line hold together
MaxTrips == 2

ResolverDateLists == {<<>>, <<D2>>, <<D3, D1>>}
ResolverSchedules == {<<>>, <<Arrival(T1), Arrival(T3)>>, <<Arrival(T2)>>}

\* The values the date picker takes in SpecResolver: before, between, on and
\* after the service dates, and the cleared picker
ResolverDates == {IsoDate(2023, 12, 25), IsoDate(2024, 1, 3), IsoDate(2024, 1, 5),
                  IsoDate(2024, 1, 12), <<>>}

\* n trips, numbered in order, each with any date list and any schedule
TripLists(n) ==
    {[i \in 1..n |-> Trip(i, f[i][1], f[i][2])] :
        f \in [1..n -> ResolverDateLists \X ResolverSchedules]}

PathX == <<Visit(StopA, 1), Visit(StopX, 2)>>
PathY == <<Visit(StopX, 1), Visit(StopY, 2)>>

\* No pattern (every fetch failed), or two patterns that share at most
\* MaxTrips trips, the first of direction 0 and the second of either
ResolverPatternSets ==
    {<<>>} \cup
    {<<Pattern("p1", "L1", "Cais", 0, PathX, "s1", SubSeq(ts, 1, k)),
       Pattern("p2", "L1", "", d, PathY, "s2", SubSeq(ts, k + 1, Len(ts)))>> :
        <<ts, k, d>> \in {x \in (UNION {TripLists(n) : n \in 0..MaxTrips})
                               \X (0..MaxTrips) \X {0, 1} : x[2] <= Len(x[1])}}

InitResolver ==
    /\ lines = ServerLines
    /\ selectedLine = ServerLines[1]
    /\ selectedPattern = NULL
    /\ selectedShape = NULL
    /\ selectedTrip = NULL
    /\ patterns \in ResolverPatternSets
    /\ date = IsoDate(2024, 1, 3)
    /\ direction = 0
    /\ viewMode = "schedule"
    /\ downloadDisplay = "none"
    /\ includeStops = FALSE
    /\ view = renderSchedules(selectedLine, patterns, direction, date, viewMode)
    /\ pending = <<>>
    /\ url = updateURL("701", "")
    /\ download = NULL
    /\ fetched = NULL
    /\ landing = url

NextResolver ==
    \/ DatePickerChange(ResolverDates)
    \/ BtnIdaClick
    \/ BtnVoltaClick

SpecResolver == InitResolver /\ [][NextResolver]_vars

-----------------------------------------------------------------------------
(* SpecLabel: a line is selected, its patterns are any of a bounded family of
   paths and trip counts, and the user switches direction and mode *)

\* The most patterns of the line
MaxLabelPatterns == 3

\* What a pattern of the family votes with: its path and how many trips it
\* has -- no path, or a path ending at X or at Y with no trip, 2 or 5 trips
LabelVotes == {<<<<>>, 2>>, <<PathX, 0>>, <<PathX, 2>>, <<PathY, 2>>, <<PathY, 5>>}

\* n trips that run on no date
DummyTrips(n) == [i \in 1..n |-> Trip(i, <<>>, <<>>)]

\* Up to MaxLabelPatterns patterns, each of either direction
LabelPatternSets ==
    UNION {{[i \in 1..n |-> Pattern(i, "L1", "", f[i][1], f[i][2][1], "s1",
                                    DummyTrips(f[i][2][2]))] :
                f \in [1..n -> {0, 1} \X LabelVotes]} :
           n \in 0..MaxLabelPatterns}

InitLabel ==
    /\ lines = ServerLines
    /\ selectedLine = ServerLines[1]
    /\ selectedPattern = NULL
    /\ selectedShape = NULL
    /\ selectedTrip = NULL
    /\ patterns \in LabelPatternSets
    /\ date = IsoDate(2024, 1, 3)
    /\ direction = 0
    /\ viewMode = "pattern"
    /\ downloadDisplay = "none"
    /\ includeStops = FALSE
    /\ view = renderSchedules(selectedLine, patterns, direction, date, viewMode)
    /\ pending = <<>>
    /\ url = updateURL("701", "")
    /\ download = NULL
    /\ fetched = NULL
    /\ landing = url

NextLabel ==
    \/ BtnIdaClick
    \/ BtnVoltaClick
    \/ BtnPatternClick

SpecLabel == InitLabel /\ [][NextLabel]_vars

-----------------------------------------------------------------------------
(* SpecGPX: a pattern of a bounded family is selected and its shape, any
   coordinate list of a bounded family, has arrived; the user exports *)

\* The most coordinates of a shape
MaxCoords == 3

\* [longitude, latitude] pairs, in tenths of a degree
CoordPool == {<<-91, 387>>, <<-92, 388>>, <<5, -120>>}

GpxShapes ==
    {Shape(c) : c \in UNION {[1..n -> CoordPool] : n \in 0..MaxCoords}}

\* A path with a stop that lacks its longitude
PathMixed == <<Visit(StopA, 1), Visit(StopY, 2), Visit(StopX, 3)>>

GpxPatterns ==
    {Pattern("p1", "L1", name, dir, path, "s1", <<>>) :
        <<name, dir, path>> \in {"", "Cais"} \X {0, 1} \X {<<>>, PathMixed}}

InitGPX ==
    /\ lines = ServerLines
    /\ selectedLine = ServerLines[1]
    /\ selectedPattern \in GpxPatterns
    /\ selectedShape \in GpxShapes
    /\ selectedTrip = NULL
    /\ patterns = <<selectedPattern>>
    /\ date = IsoDate(2024, 1, 3)
    /\ direction = 0
    /\ viewMode = "pattern"
    /\ downloadDisplay = "block"
    /\ includeStops = FALSE
    /\ view = renderSchedules(selectedLine, patterns, direction, date, viewMode)
    /\ pending = <<>>
    /\ url = updateURL("701", "p1")
    /\ download = NULL
    /\ fetched = NULL
    /\ landing = url

NextGPX ==
    \/ IncludeStopsToggle
    \/ BtnDownloadClick

SpecGPX == InitGPX /\ [][NextGPX]_vars

-----------------------------------------------------------------------------
(* Properties of the Service Calendar Resolver, under SpecResolver *)

\* The schedule list is what the results list shows
InScheduleView == view.kind = "schedules" /\ view.mode = "schedule"

\* The requested date in the format of the service dates
Requested == replaceDashes(date)

\* The positions <<i, j>> of the trips of the selected direction
DirectionTrips ==
    UNION {{<<i, j>> : j \in 1..Len(patterns[i].trips)} :
           i \in {n \in 1..Len(patterns) : patterns[n].direction = direction}}

TripAt(p) == patterns[p[1]].trips[p[2]]
PairAt(p) == [trip |-> TripAt(p), pattern |-> patterns[p[1]]]
Runs(p, d) == \E k \in 1..Len(TripAt(p).dates) : TripAt(p).dates[k] = d
HasSchedule(p) == Len(TripAt(p).schedule) > 0

\* The candidate set A
CandidateDates == {d \in UNION {Range(TripAt(p).dates) : p \in DirectionTrips} : TRUE}

RunningOn(d) == {p \in DirectionTrips : Runs(p, d)}

MaxDate(S) == CHOOSE d \in S : \A e \in S : StrLeq(e, d)
MinDate(S) == CHOOSE d \in S : \A e \in S : StrLeq(d, e)

\* The (trip, pattern) pairs of the itinerary shown
ItineraryPairs ==
    {[trip |-> view.resolved.allTrips[n].trip,
      pattern |-> view.resolved.allTrips[n].pattern] :
        n \in 1..Len(view.resolved.allTrips)}

\* C1: when no trip of the selected direction runs on the requested date and
\* the candidate set A is not empty, the resolver uses (and reports) the
\* latest date of A that is not after the request, and the earliest date of A
\* when there is none.
C1_ClosestDate ==
    (InScheduleView /\ RunningOn(Requested) = {} /\ CandidateDates # {}) =>
        LET P == {d \in CandidateDates : StrLeq(d, Requested)}
            expected == IF P # {} THEN MaxDate(P) ELSE MinDate(CandidateDates)
        IN  /\ view.resolved.usedDate = expected
            /\ view.resolved.isFallback
            /\ replaceDashes(view.resolved.fallbackDateDisplay) = expected

\* C1 witness: A = {20240101, 20240105, 20240110} and the request 20231225,
\* before every date of A, resolve to 20240101
C1_Witness ==
    /\ InScheduleView
    /\ date = IsoDate(2023, 12, 25)
    /\ CandidateDates = {D1, D2, D3}
    /\ RunningOn(Requested) = {}
    /\ view.resolved.usedDate = D1

\* C2 as claimed: a requested date on which some trip of the selected
\* direction runs yields exactly the trips of that direction that run on it,
\* and no fallback.
C2_ExactlyRunningTrips ==
    (InScheduleView /\ RunningOn(Requested) # {}) =>
        /\ ItineraryPairs = {PairAt(p) : p \in RunningOn(Requested)}
        /\ Len(view.resolved.allTrips) = Cardinality(RunningOn(Requested))
        /\ ~view.resolved.isFallback

\* C2 amended: a requested date on which some trip of the selected direction
\* runs yields exactly the trips of that direction that run on it and have a
\* non-empty schedule, each once, and no fallback.
C2_RunningTripsWithSchedule ==
    (InScheduleView /\ RunningOn(Requested) # {}) =>
        LET running == {p \in RunningOn(Requested) : HasSchedule(p)}
        IN  /\ ItineraryPairs = {PairAt(p) : p \in running}
            /\ Len(view.resolved.allTrips) = Cardinality(running)
            /\ ~view.resolved.isFallback
            /\ view.resolved.usedDate = Requested

\* C2 witness: two trips run on the requested date, one of them without a
\* schedule, and the other is what the itinerary holds
C2_Witness ==
    /\ InScheduleView
    /\ \E p, q \in RunningOn(Requested) : HasSchedule(p) /\ ~HasSchedule(q)
    /\ Len(view.resolved.allTrips) = 1
    /\ ~view.resolved.isFallback

\* The resolver ran getTripsForDate for another date than the requested one
Substituted == view.resolved.usedDate # Requested

\* C3 as claimed: a substituted date is flagged, the reported date is the
\* date used, and the itinerary is exactly the trips of the selected
\* direction that run on it.
C3_FallbackExactlyRunningTrips ==
    (InScheduleView /\ Substituted) =>
        /\ view.resolved.isFallback
        /\ view.resolved.fallbackDateDisplay
               = substring(view.resolved.usedDate, 0, 4) \o <<DASH>>
                 \o substring(view.resolved.usedDate, 4, 6) \o <<DASH>>
                 \o substring(view.resolved.usedDate, 6, 8)
        /\ replaceDashes(view.resolved.fallbackDateDisplay) = view.resolved.usedDate
        /\ ItineraryPairs = {PairAt(p) : p \in RunningOn(view.resolved.usedDate)}

\* C3 amended: a substituted date is flagged, the reported date is the date
\* used (written YYYY-MM-DD), and the itinerary is exactly the trips of the
\* selected direction that run on it and have a non-empty schedule.
C3_FallbackTripsWithSchedule ==
    (InScheduleView /\ Substituted) =>
        LET running == {p \in RunningOn(view.resolved.usedDate) : HasSchedule(p)}
        IN  /\ view.resolved.isFallback
            /\ Len(view.resolved.fallbackDateDisplay) = 10
            /\ view.resolved.fallbackDateDisplay[5] = DASH
            /\ view.resolved.fallbackDateDisplay[8] = DASH
            /\ replaceDashes(view.resolved.fallbackDateDisplay) = view.resolved.usedDate
            /\ view.resolved.usedDate \in CandidateDates
            /\ ItineraryPairs = {PairAt(p) : p \in running}
            /\ Len(view.resolved.allTrips) = Cardinality(running)

\* C3 witness: the fallback date has a trip with a schedule and one without
C3_Witness ==
    /\ InScheduleView
    /\ date = IsoDate(2024, 1, 12)
    /\ Substituted
    /\ view.resolved.isFallback
    /\ \E p, q \in RunningOn(view.resolved.usedDate) : HasSchedule(p) /\ ~HasSchedule(q)
    /\ Len(view.resolved.allTrips) = 1

\* C8: when the candidate set A is empty the itinerary is empty, no fallback
\* is flagged and the no-schedule message is shown, whatever the date.
C8_NoCandidateDates ==
    (InScheduleView /\ CandidateDates = {}) =>
        /\ view.resolved.allTrips = <<>>
        /\ ~view.resolved.isFallback
        /\ view.resolved.fallbackDateDisplay = <<>>
        /\ view.resolved.emptyState

\* C8 witness: the direction has a trip with a schedule and no service date
C8_Witness ==
    /\ InScheduleView
    /\ CandidateDates = {}
    /\ \E p \in DirectionTrips : HasSchedule(p)
    /\ date # IsoDate(2024, 1, 3)
    /\ view.resolved.emptyState

\* C9: the itinerary is a permutation of the resolved triples, start times
\* never decrease in the code-unit order of the strings, and triples with
\* the same start time keep their order.
C9_TripOrdering ==
    InScheduleView =>
        LET out == view.resolved.allTrips
            inp == view.resolved.unsorted
            n == Len(out)
        IN  /\ Len(inp) = n
            /\ \A i \in 1..(n - 1) : StrLeq(out[i].startTime, out[i + 1].startTime)
            /\ \E perm \in [1..n -> 1..n] :
                /\ \A i, j \in 1..n : perm[i] = perm[j] => i = j
                /\ \A i \in 1..n : out[i] = inp[perm[i]]
                /\ \A i, j \in 1..n :
                       (i < j /\ out[i].startTime = out[j].startTime)
                           => perm[i] < perm[j]

\* C9 witness: an itinerary of two trips with the same start time
C9_Witness ==
    /\ InScheduleView
    /\ date = IsoDate(2024, 1, 5)
    /\ Len(view.resolved.allTrips) >= 2
    /\ view.resolved.allTrips[1].startTime = view.resolved.allTrips[2].startTime
    /\ view.resolved.allTrips[1].trip.id < view.resolved.allTrips[2].trip.id

\* C18: no trip without schedule is in the itinerary, and every trip of the
\* selected direction that runs on the date the resolver used and has a
\* schedule is in it, whatever other trips lack theirs.
C18_EmptyScheduleSkipped ==
    InScheduleView =>
        /\ \A n \in 1..Len(view.resolved.allTrips) :
               Len(view.resolved.allTrips[n].trip.schedule) > 0
        /\ \A p \in RunningOn(view.resolved.usedDate) :
               HasSchedule(p) => PairAt(p) \in ItineraryPairs

\* C18 witness: in a pattern of the second direction, shown, a trip without
\* schedule comes before a trip with one, both run on the date used, and
\* the second is in the itinerary
C18_Witness ==
    /\ InScheduleView
    /\ direction = 1
    /\ \E p, q \in RunningOn(view.resolved.usedDate) :
        /\ p[1] = q[1] /\ p[2] < q[2]
        /\ ~HasSchedule(p) /\ HasSchedule(q)
        /\ PairAt(q) \in ItineraryPairs
        /\ PairAt(p) \notin ItineraryPairs

\* The trips of the selected direction that can be shown on some date: they
\* have a schedule and a service date
ShowableTrips ==
    {p \in DirectionTrips : HasSchedule(p) /\ Len(TripAt(p).dates) > 0}

\* C20 as claimed: the itinerary is empty, and the no-schedule message shown,
\* only if no trip of the selected direction has both a schedule and a
\* service date.
C20_EmptyOnlyWhenNothingToShow ==
    (InScheduleView /\ view.resolved.allTrips = <<>>) => ShowableTrips = {}

\* C21: every entry of the itinerary shown has a pattern of the selected
\* direction, a trip of that pattern that runs on the date the resolver used
\* (requested or fallback), and as start time the arrival time of the first
\* entry of the trip's schedule; no (trip, pattern) pair is listed twice; and
\* the candidate set the fallback chooses from holds only service dates of
\* trips of the selected direction.
C21_ItineraryEntries ==
    InScheduleView =>
        LET r == view.resolved
        IN  /\ \A n \in 1..Len(r.allTrips) :
                   LET e == r.allTrips[n]
                   IN  /\ e.pattern.direction = direction
                       /\ \E i \in 1..Len(patterns) : patterns[i] = e.pattern
                       /\ \E j \in 1..Len(e.pattern.trips) : e.pattern.trips[j] = e.trip
                       /\ r.usedDate \in Range(e.trip.dates)
                       /\ Len(e.trip.schedule) > 0
                       /\ e.startTime = e.trip.schedule[1].arrival_time
            /\ \A m, n \in 1..Len(r.allTrips) :
                   (/\ r.allTrips[m].trip = r.allTrips[n].trip
                    /\ r.allTrips[m].pattern = r.allTrips[n].pattern) => m = n
            /\ r.availableDates \subseteq CandidateDates

\* C21 witness: the first direction is shown after a change of date, the
\* itinerary holds a trip on a fallback date, and a trip of the pattern of
\* the other direction has a schedule and runs on a date no trip of the
\* shown direction runs on
C21_Witness ==
    /\ InScheduleView
    /\ direction = 0
    /\ date = IsoDate(2024, 1, 12)
    /\ view.resolved.isFallback
    /\ Len(view.resolved.allTrips) = 1
    /\ Len(patterns) = 2
    /\ patterns[2].direction = 1
    /\ \E j \in 1..Len(patterns[2].trips) :
           LET other == patterns[2].trips[j]
           IN  /\ Len(other.schedule) > 0
               /\ \E d \in Range(other.dates) : d \notin view.resolved.availableDates

-----------------------------------------------------------------------------
(* Properties of the Direction Label Inference, under SpecLabel *)

\* The patterns of direction d that vote: those with a stop in their path
VotingPatterns(d) ==
    {i \in 1..Len(patterns) :
        patterns[i].direction = d /\ Len(patterns[i].path) > 0}

\* The destination name of pattern i: the name of the last stop of its path
EndName(i) == patterns[i].path[Len(patterns[i].path)].stop.name

RECURSIVE SumOver(_, _)
SumOver(S, f) ==
    IF S = {} THEN 0
    ELSE LET x == CHOOSE y \in S : TRUE
         IN  f[x] + SumOver(S \ {x}, f)

\* The votes of a name in direction d, a pattern voting with its trip count
VoteWeight(d, name) ==
    SumOver({i \in VotingPatterns(d) : EndName(i) = name},
            [i \in 1..Len(patterns) |-> Len(patterns[i].trips)])

\* The votes of a name in direction d, a pattern voting with at least 1
VoteWeightAtLeastOne(d, name) ==
    SumOver({i \in VotingPatterns(d) : EndName(i) = name},
            [i \in 1..Len(patterns) |-> Max(1, Len(patterns[i].trips))])

\* The position of the first pattern of direction d that ends at name
FirstSeen(d, name) ==
    CHOOSE i \in VotingPatterns(d) :
        /\ EndName(i) = name
        /\ \A j \in VotingPatterns(d) : EndName(j) = name => i <= j

\* The name with the most votes, the first encountered among equals
ExpectedLabel(d) ==
    LET names == {EndName(i) : i \in VotingPatterns(d)}
    IN  CHOOSE n \in names :
            \A m \in names \ {n} :
                \/ VoteWeight(d, n) > VoteWeight(d, m)
                \/ /\ VoteWeight(d, n) = VoteWeight(d, m)
                   /\ FirstSeen(d, n) < FirstSeen(d, m)

\* The patterns are A (2 trips, ends at X) then B (5 trips, ends at Y), both
\* of direction 0
ExampleTwoPatterns ==
    /\ Len(patterns) = 2
    /\ \A i \in 1..2 : patterns[i].direction = 0
    /\ patterns[1].path = PathX /\ Len(patterns[1].trips) = 2
    /\ patterns[2].path = PathY /\ Len(patterns[2].trips) = 5

\* C4: the label of a direction with a voting pattern is the destination
\* name with the greatest sum of trip counts over the patterns of the
\* direction that end there, the first encountered name winning a tie; with
\* A (2 trips, ends at X) and B (5 trips, ends at Y) the label is Y.
C4_DestinationLabel ==
    view.kind = "schedules" =>
        /\ VotingPatterns(0) # {} => view.labelIda = ExpectedLabel(0)
        /\ VotingPatterns(1) # {} => view.labelVolta = ExpectedLabel(1)
        /\ ExampleTwoPatterns => view.labelIda = "Y"

\* C4 witness: the second direction is shown and its two patterns tie with 2
\* trips each, the first ending at Y and the second at X: the label is Y
C4_Witness ==
    /\ view.kind = "schedules"
    /\ direction = 1
    /\ Len(patterns) = 3
    /\ patterns[1].direction = 0
    /\ patterns[2].direction = 1 /\ patterns[2].path = PathY
    /\ patterns[3].direction = 1 /\ patterns[3].path = PathX
    /\ Len(patterns[2].trips) = 2 /\ Len(patterns[3].trips) = 2
    /\ view.labelVolta = "Y"

\* The patterns are one without trips ending at X, one with 2 trips ending
\* at Y and another without trips ending at X, all of direction 0
ExampleZeroTrips ==
    /\ Len(patterns) = 3
    /\ \A i \in 1..3 : patterns[i].direction = 0
    /\ patterns[1].path = PathX /\ Len(patterns[1].trips) = 0
    /\ patterns[2].path = PathY /\ Len(patterns[2].trips) = 2
    /\ patterns[3].path = PathX /\ Len(patterns[3].trips) = 0

\* C5 as claimed: in the vote of each direction the accumulated weight of
\* every destination name is the sum, over the patterns ending there, of
\* max(1, number of trips) -- a pattern without trips weighs 1, so that two
\* patterns without trips ending at X tie with one of 2 trips ending at Y,
\* and X, met first, is the label.
C5_ZeroTripsWeighOne ==
    view.kind = "schedules" =>
        /\ \A d \in {0, 1} :
            LET counts == countVotes(filterDirection(patterns, d), <<>>)
            IN  \A k \in 1..Len(counts) :
                    counts[k].count = VoteWeightAtLeastOne(d, counts[k].name)
        /\ ExampleZeroTrips => view.labelIda = "X"

\* The patterns held, those with an empty path removed
RECURSIVE WithoutEmptyPaths(_)
WithoutEmptyPaths(pats) ==
    IF pats = <<>> THEN <<>>
    ELSE (IF Len(Head(pats).path) = 0 THEN <<>> ELSE <<Head(pats)>>)
         \o WithoutEmptyPaths(Tail(pats))

\* The label shown for a direction
LabelShown(d) == IF d = 0 THEN view.labelIda ELSE view.labelVolta

\* C16: the label of a direction is the label the same patterns give once
\* those with an empty path are removed, and it is the literal "Ida" or
\* "Volta" when the direction has no pattern, or none with a path.
C16_EmptyPathNoVote ==
    view.kind = "schedules" =>
        \A d \in {0, 1} :
            /\ LabelShown(d) = getDestinationName(WithoutEmptyPaths(patterns), d)
            /\ VotingPatterns(d) = {} =>
                   LabelShown(d) = (IF d = 0 THEN "Ida" ELSE "Volta")
            /\ VotingPatterns(d) # {} => LabelShown(d) = ExpectedLabel(d)

\* C16 witness: the first direction has a pattern without path and one that
\* ends at X, the second direction, shown, has only a pattern without path
C16_Witness ==
    /\ view.kind = "schedules"
    /\ direction = 1
    /\ Len(patterns) = 3
    /\ patterns[1].direction = 0 /\ patterns[1].path = <<>>
    /\ patterns[2].direction = 0 /\ patterns[2].path = PathX
    /\ patterns[3].direction = 1 /\ patterns[3].path = <<>>
    /\ view.labelIda = "X"
    /\ view.labelVolta = "Volta"

-----------------------------------------------------------------------------
(* Properties of the asynchronous handlers, under Spec and SpecShapesFound *)

\* A handler waits for fetchShape
ShapeFetchPending ==
    \E k \in 1..Len(pending) : pending[k].op \in {"selectTrip", "patternClick"}

\* A selectLine call waits for fetchPatterns
PatternFetchPending == \E k \in 1..Len(pending) : pending[k].op = "selectLine"

\* C6 as claimed: once the shape requests of the selections made have all
\* completed, every one with a shape, the shape held is the one the selected
\* pattern refers to -- the result of a superseded request is discarded.
C6_ShapeOfSelectedPattern ==
    (~ShapeFetchPending /\ selectedPattern # NULL /\ selectedShape # NULL) =>
        selectedShape = ServerShapes[selectedPattern.shape_id]

\* C7 as claimed: whenever the schedule or variant list is on the page, or a
\* line is selected and no selectLine call waits for its patterns, every
\* pattern held belongs to the selected line.
C7_PatternsOfSelectedLine ==
    (view.kind = "schedules" \/ (selectedLine # NULL /\ ~PatternFetchPending)) =>
        \A i \in 1..Len(patterns) :
            selectedLine # NULL /\ patterns[i].line_id = selectedLine.id

-----------------------------------------------------------------------------
(* Properties of the GPX export, under SpecGPX *)

\* The positions of the elements of a document that carry a tag
TagIndexes(doc, tag) == {k \in 1..Len(doc) : doc[k].tag = tag}

\* The number a sequence of decimal digits writes
RECURSIVE ParseDigits(_)
ParseDigits(ds) ==
    IF ds = <<>> THEN 0
    ELSE 10 * ParseDigits(SubSeq(ds, 1, Len(ds) - 1)) + (ds[Len(ds)] - 48)

\* The number of tenths an attribute text writes: an optional sign, an
\* integer part and at most one decimal
ParseTenths(str) ==
    LET negative == Len(str) > 0 /\ str[1] = MINUS
        body == IF negative THEN Tail(str) ELSE str
        points == {k \in 1..Len(body) : body[k] = POINT}
        value == IF points = {}
                 THEN 10 * ParseDigits(body)
                 ELSE LET k == CHOOSE x \in points : TRUE
                      IN  10 * ParseDigits(SubSeq(body, 1, k - 1))
                          + ParseDigits(SubSeq(body, k + 1, Len(body)))
    IN  IF negative THEN -value ELSE value

\* The coordinates [[-9.1, 38.7], [-9.2, 38.8]]
ExampleCoords == <<<<-91, 387>>, <<-92, 388>>>>

\* C10: the exported document has exactly one track with exactly one track
\* segment, whose content is one track point per coordinate of the shape, in
\* the order of the shape, the k-th with lat the second and lon the first
\* component of the k-th coordinate; [[-9.1,38.7],[-9.2,38.8]] gives
\* lat="38.7" lon="-9.1" then lat="38.8" lon="-9.2".
C10_OneTrackPointPerCoordinate ==
    download # NULL =>
        LET doc == download.gpx
            coords == selectedShape.geojson.geometry.coordinates
            n == Len(coords)
        IN  /\ Cardinality(TagIndexes(doc, "trk")) = 1
            /\ Cardinality(TagIndexes(doc, "/trk")) = 1
            /\ Cardinality(TagIndexes(doc, "trkseg")) = 1
            /\ Cardinality(TagIndexes(doc, "/trkseg")) = 1
            /\ Cardinality(TagIndexes(doc, "trkpt")) = n
            /\ LET trk == CHOOSE k \in TagIndexes(doc, "trk") : TRUE
                   seg == CHOOSE k \in TagIndexes(doc, "trkseg") : TRUE
               IN  /\ trk < seg
                   /\ TagIndexes(doc, "trkpt") = (seg + 1)..(seg + n)
                   /\ doc[seg + n + 1].tag = "/trkseg"
                   /\ doc[seg + n + 2].tag = "/trk"
                   /\ \A k \in 1..n :
                        /\ ParseTenths(doc[seg + k].lat) = coords[k][2]
                        /\ ParseTenths(doc[seg + k].lon) = coords[k][1]
                   /\ coords = ExampleCoords =>
                        /\ doc[seg + 1].lat = <<51, 56, POINT, 55>>
                        /\ doc[seg + 1].lon = <<MINUS, 57, POINT, 49>>
                        /\ doc[seg + 2].lat = <<51, 56, POINT, 56>>
                        /\ doc[seg + 2].lon = <<MINUS, 57, POINT, 50>>

\* C10 witness: the shape [[-9.1,38.7],[-9.2,38.8]] exported with the stops
\* of the pattern as waypoints
C10_Witness ==
    /\ download # NULL
    /\ selectedShape.geojson.geometry.coordinates = ExampleCoords
    /\ TagIndexes(download.gpx, "wpt") # {}
    /\ Cardinality(TagIndexes(download.gpx, "trkpt")) = 2

\* The stop-visits of the exported pattern whose stop has a latitude and a
\* longitude
LocatedVisits ==
    {k \in 1..Len(selectedPattern.path) :
        /\ selectedPattern.path[k].stop.lat # <<>>
        /\ selectedPattern.path[k].stop.lon # <<>>}

\* C11: without the include-stops flag the document has no waypoint; with it
\* the waypoints are, in path order, one for each stop-visit whose stop has
\* both coordinates, with the coordinates, the name and the sequence number
\* of that stop-visit, and they come before the track.
C11_Waypoints ==
    download # NULL =>
        LET doc == download.gpx
            wpts == TagIndexes(doc, "wpt")
            path == selectedPattern.path
        IN  IF ~download.includeStops THEN wpts = {}
            ELSE /\ Cardinality(wpts) = Cardinality(LocatedVisits)
                 /\ wpts = 4..(3 + Cardinality(wpts))
                 /\ doc[4 + Cardinality(wpts)].tag = "trk"
                 /\ \E f \in [wpts -> LocatedVisits] :
                      /\ \A i, j \in wpts : i < j => f[i] < f[j]
                      /\ \A i \in wpts :
                           /\ doc[i].lat = path[f[i]].stop.lat
                           /\ doc[i].lon = path[f[i]].stop.lon
                           /\ doc[i].name = <<path[f[i]].stop.name>>
                           /\ doc[i].desc = <<path[f[i]].stop_sequence>>

\* C11 witness: a path of three stops, the second without longitude,
\* exported with the flag set: two waypoints, for the visits 1 and 3
C11_Witness ==
    /\ download # NULL
    /\ download.includeStops
    /\ selectedPattern.path = PathMixed
    /\ LocatedVisits = {1, 3}
    /\ Cardinality(TagIndexes(download.gpx, "wpt")) = 2
    /\ download.gpx[5].desc = <<3>>

-----------------------------------------------------------------------------
(* Properties of the Transit Catalog Client *)

\* The positions of the ids of the last fetchPatterns call whose request got
\* an OK response
ResolvedIds == {i \in 1..Len(fetched.ids) : fetched.outcome[i] = "ok"}

\* C12 as claimed: what fetchPatterns returned is exactly the patterns of the
\* ids whose request succeeded, in the order of the ids -- a request that
\* fails, by a response that is not OK or by a thrown error, takes no other
\* pattern with it.
C12_OnlyFailedIdsDropped ==
    fetched # NULL =>
        /\ Len(patterns) = Cardinality(ResolvedIds)
        /\ \E f \in [1..Len(patterns) -> ResolvedIds] :
            /\ \A i, j \in 1..Len(patterns) : i < j => f[i] < f[j]
            /\ \A i \in 1..Len(patterns) :
                   patterns[i] = ServerPatterns[fetched.ids[f[i]]]

-----------------------------------------------------------------------------
(* Properties of the query-parameter round trip, under SpecDeepLink *)

\* The line and the pattern whose selection wrote the URL
LinkedLine == findLine(ServerLines, url.line)
LinkedPattern == ServerPatterns[url.active_pattern_id]

\* handleStartup has returned, and the catalog served the line and the
\* pattern of the URL
StartupRestored ==
    /\ pending = <<>>
    /\ \E i \in 1..Len(lines) : lines[i] = LinkedLine
    /\ \E i \in 1..Len(patterns) : patterns[i] = LinkedPattern

\* C13 as claimed: handleStartup on the URL that updateURL wrote for line L
\* and pattern P ends with L selected, P selected and the direction of P
\* shown.
C13_RoundTrip ==
    StartupRestored =>
        /\ selectedLine = LinkedLine
        /\ selectedPattern = LinkedPattern
        /\ direction = LinkedPattern.direction

\* C19 as claimed: when every request has settled, a failed shape request
\* included, the shape held is none or the one the selected pattern refers
\* to -- never the shape of the pattern selected before.
C19_NoStaleShape ==
    (pending = <<>> /\ selectedPattern # NULL) =>
        \/ selectedShape = NULL
        \/ selectedShape = ServerShapes[selectedPattern.shape_id]

-----------------------------------------------------------------------------
(* Properties of handleStartup, under SpecHistory *)

\* The awaits that belong to a call of handleStartup, and the URL parameters
\* that call read
StartupRecord(r) == r.op = "startup" \/ (r.op = "selectTrip" /\ "startup" \in DOMAIN r)
StartupParams(r) == IF r.op = "startup" THEN r.params ELSE r.startup
StartupInFlight(p) == \E k \in 1..Len(p) : StartupRecord(p[k])

\* The step ends a call of handleStartup that read params: the call began
\* with this step or was waiting, and it waits no more
HandleStartupEnds(params) ==
    /\ ~StartupInFlight(pending')
    /\ \/ Popstate /\ params = landing
       \/ /\ \E k \in 1..Len(pending) :
                 StartupRecord(pending[k]) /\ StartupParams(pending[k]) = params
          /\ (StartupLinesLoaded \/ StartupLineSelected \/ SelectTripDone)

\* The line of state.lines the parameters name, if any
NamedLine(params, ls) == IF params.line = "" THEN NULL ELSE findLine(ls, params.line)

\* C22 as claimed: when handleStartup ends for a URL, on the load of the page
\* or on popstate, a URL that names a known line leaves that line selected,
\* and a URL without line parameter, or with one that names no known line,
\* met while a line is selected, leaves no line selected and the download
\* section hidden.
C22_SelectionAgreesWithURL ==
    [][\A params \in LandingURLs :
          HandleStartupEnds(params) =>
              IF NamedLine(params, lines') # NULL
              THEN selectedLine' = NamedLine(params, lines')
              ELSE selectedLine # NULL =>
                       (selectedLine' = NULL /\ downloadDisplay' = "none")]_vars

-----------------------------------------------------------------------------
(* Properties of the download section, under Spec *)

\* C14 as claimed: whenever the download section is visible a line, a pattern
\* and a shape are selected, and the file the download button would hand out
\* is named {short name of the selected line}_{id of the selected pattern}.gpx.
C14_ExportFilename ==
    downloadDisplay = "block" =>
        /\ selectedLine # NULL
        /\ selectedPattern # NULL
        /\ selectedShape # NULL
        /\ filename(selectedLine, selectedPattern)
               = [line |-> selectedLine.short_name,
                  pattern |-> selectedPattern.id,
                  ext |-> ".gpx"]

\* The one element of a document with a tag
ElementWith(doc, tag) == doc[CHOOSE k \in TagIndexes(doc, tag) : TRUE]

\* C15: the metadata name of the exported document is the short name of the
\* pattern, or its id when the short name is empty; the track name is the
\* short name followed by " (Ida)" for direction 0 and " (Volta)" for
\* direction 1.
C15_DocumentNames ==
    download # NULL =>
        LET doc == download.gpx
            p == selectedPattern
        IN  /\ Cardinality(TagIndexes(doc, "metadata")) = 1
            /\ Cardinality(TagIndexes(doc, "name")) = 1
            /\ p.short_name # "" => ElementWith(doc, "metadata").name = <<p.short_name>>
            /\ p.short_name = "" => ElementWith(doc, "metadata").name = <<p.id>>
            /\ p.direction = 0 => ElementWith(doc, "name").name = <<p.short_name, " (Ida)">>
            /\ p.direction = 1 => ElementWith(doc, "name").name = <<p.short_name, " (Volta)">>
            /\ doc[CHOOSE k \in TagIndexes(doc, "trk") : TRUE].tag = "trk"
            /\ (CHOOSE k \in TagIndexes(doc, "name") : TRUE)
                   = (CHOOSE k \in TagIndexes(doc, "trk") : TRUE) + 1

\* C15 witness: a pattern of direction 1 without short name is exported: the
\* metadata name is its id and the track name is " (Volta)" alone
C15_Witness ==
    /\ download # NULL
    /\ selectedPattern.short_name = ""
    /\ selectedPattern.direction = 1
    /\ ElementWith(download.gpx, "metadata").name = <<"p1">>
    /\ ElementWith(download.gpx, "name").name = <<"", " (Volta)">>

====
